---- MODULE Spec2Model ----
(***************************************************************************)
(* Scope-based authorization of jupyterhub/scopes.py:                      *)
(*   parse_scopes      grant strings -> structured scope model             *)
(*   get_scopes_for    effective scopes of a user, service or API token    *)
(*   _check_scope      one required scope against the request's resources  *)
(*   needs_scope       the decorator guarding an API handler method        *)
(*                                                                         *)
(* A Python str is a sequence of one-character strings, so that            *)
(* str.partition and str.format are computed and not assumed.              *)
(***************************************************************************)
EXTENDS Integers, Sequences, FiniteSets, TLC

VARIABLES
    \* parse_scopes: its argument, the loop position, its local parsed_scopes
    scope_list, ps_i, ps_parsed_scopes, ps_pc,
    \* get_scopes_for: its argument, what roles.get_scopes_for answers, the
    \* set returned, the scopes named in the warning
    orm_object, roles_scopes, gs_scopes, gs_discarded, gs_pc,
    \* the API handler (one request): whether it has the attribute raw_scopes,
    \* and its attributes raw_scopes and parsed_scopes
    has_raw_scopes, raw_scopes, parsed_scopes,
    \* the grant strings the caller of the request holds
    caller_scopes,
    \* what handler.find_user answers for each user name
    find_user,
    \* the last call of a decorated method: the decorator's scopes, the
    \* s_kwargs it built and the order it built them in, the result of each
    \* _check_scope call made, how the call ended, the find_user calls made
    pc, scopes, s_kwargs, order, checks, outcome, lookups

varsParse == <<scope_list, ps_i, ps_parsed_scopes, ps_pc>>

varsResolve == <<orm_object, roles_scopes, gs_scopes, gs_discarded, gs_pc>>

varsHandler == <<has_raw_scopes, raw_scopes, parsed_scopes, caller_scopes, find_user>>

varsCall == <<pc, scopes, s_kwargs, order, checks, outcome, lookups>>

vars == <<varsParse, varsResolve, varsHandler, varsCall>>

\* ------------------------------------------------------------------ bounds

\* Longest scope_list handed to parse_scopes.
MaxScopeList == 3

\* Longest list of grant strings a caller holds.
MaxHeld == 2

\* ----------------------------------------------------------------- strings

user == <<"u", "s", "e", "r">>

server == <<"s", "e", "r", "v", "e", "r">>

group == <<"g", "r", "o", "u", "p">>

service == <<"s", "e", "r", "v", "i", "c", "e">>

all == <<"a", "l", "l">>

users == <<"u", "s", "e", "r", "s">>

users_servers == <<"u", "s", "e", "r", "s", ":", "s", "e", "r", "v", "e", "r", "s">>

u1 == <<"u", "1">>

u2 == <<"u", "2">>

bar == <<"b", "a", "r">>

g1 == <<"g", "1">>

g2 == <<"g", "2">>

\* "<name>!<key>=<val>", the wire form of a filtered grant.
FilteredGrant(name, key, val) == name \o <<"!">> \o key \o <<"=">> \o val

\* ------------------------------------------------------------ Python dicts

EmptyDict == [x \in {} |-> {}]

\* d[k] = v
Put(d, k, v) == [x \in (DOMAIN d) \cup {k} |-> IF x = k THEN v ELSE d[x]]

\* -------------------------------------------------------------- scope model

\* Scope.ALL: the value of a scope held without filter.
Scope_ALL == [ALL |-> TRUE, filters |-> EmptyDict]

\* A dict of filter key -> list of values: the value of a filtered scope.
Filtered(d) == [ALL |-> FALSE, filters |-> d]

\* ------------------------------------------------------------ str.partition

RECURSIVE Find(_, _, _)
\* Index of the first occurrence of character c in s at or after i; 0 if none.
Find(s, c, i) ==
    IF i > Len(s) THEN 0
    ELSE IF s[i] = c THEN i
    ELSE Find(s, c, i + 1)

\* s.partition(c): <<head, separator, tail>> around the first c.
partition(s, c) ==
    LET i == Find(s, c, 1)
    IN  IF i = 0
        THEN <<s, <<>>, <<>>>>
        ELSE <<SubSeq(s, 1, i - 1), <<c>>, SubSeq(s, i + 1, Len(s))>>

\* -------------------------------------------------------------- parse_scopes

\* A plausible slip: a filtered grant replaces Scope.ALL instead of leaving it.
ParseStepDowngrade(parsed, scope) ==
    LET p       == partition(scope, "!")
        base    == p[1]
        filter_ == p[3]
        q       == partition(filter_, "=")
        d       == IF base \in DOMAIN parsed /\ ~parsed[base].ALL
                   THEN parsed[base].filters
                   ELSE EmptyDict
        d1      == IF q[1] \in DOMAIN d THEN d ELSE Put(d, q[1], <<>>)
    IN  IF filter_ = <<>>
        THEN Put(parsed, base, Scope_ALL)
        ELSE Put(parsed, base, Filtered(Put(d1, q[1], Append(d1[q[1]], q[3]))))

\* A plausible slip: a later value replaces the list instead of extending it.
ParseStepOverwrite(parsed, scope) ==
    LET p       == partition(scope, "!")
        base    == p[1]
        filter_ == p[3]
        p1      == IF filter_ = <<>>
                   THEN Put(parsed, base, Scope_ALL)
                   ELSE IF base \notin DOMAIN parsed
                        THEN Put(parsed, base, Filtered(EmptyDict))
                        ELSE parsed
    IN  IF ~p1[base].ALL
        THEN LET q == partition(filter_, "=")
             IN  Put(p1, base, Filtered(Put(p1[base].filters, q[1], <<q[3]>>)))
        ELSE p1

\* The body of the loop over scope_list.
ParseStep(parsed, scope) ==
    LET p       == partition(scope, "!")
        base    == p[1]
        filter_ == p[3]
        p1      == IF filter_ = <<>>
                   THEN Put(parsed, base, Scope_ALL)
                   ELSE IF base \notin DOMAIN parsed
                        THEN Put(parsed, base, Filtered(EmptyDict))
                        ELSE parsed
    IN  IF ~p1[base].ALL
        THEN LET q   == partition(filter_, "=")
                 key == q[1]
                 val == q[3]
                 d   == p1[base].filters
                 d1  == IF key \notin DOMAIN d THEN Put(d, key, <<>>) ELSE d
             IN  Put(p1, base, Filtered(Put(d1, key, Append(d1[key], val))))
        ELSE p1

RECURSIVE ParseFrom(_, _, _)
ParseFrom(parsed, list, i) ==
    IF i > Len(list) THEN parsed
    ELSE ParseFrom(ParseStep(parsed, list[i]), list, i + 1)

parse_scopes(list) == ParseFrom(EmptyDict, list, 1)

\* ------------------------------------------------------------ get_scopes_for

\* A plausible slip: the token's scopes are returned without the intersection
\* with its owner's.
get_scopes_for_unbounded(object, roles) ==
    IF object.type = "None"
    THEN [scopes |-> {}, discarded |-> {}]
    ELSE IF object.type = "APIToken"
    THEN LET owner_scopes == roles[object.owner]
             token_scopes == IF all \in roles["APIToken"]
                             THEN roles["APIToken"] \cup owner_scopes
                             ELSE roles["APIToken"]
         IN  [scopes |-> token_scopes, discarded |-> {}]
    ELSE [scopes |-> roles[object.type], discarded |-> {}]

\* get_scopes_for(orm_object), with roles.get_scopes_for as the function roles;
\* discarded is what the warning names (empty: no warning).
get_scopes_for(object, roles) ==
    IF object.type = "None"
    THEN [scopes |-> {}, discarded |-> {}]
    ELSE IF object.type = "APIToken"
    THEN LET owner_scopes  == roles[object.owner]
             token_scopes0 == roles["APIToken"]
             token_scopes  == IF all \in token_scopes0
                              THEN token_scopes0 \cup owner_scopes
                              ELSE token_scopes0
             result        == token_scopes \cap owner_scopes
         IN  [scopes |-> result, discarded |-> token_scopes \ result]
    ELSE [scopes |-> roles[object.type], discarded |-> {}]

\* ------------------------------------------------------------- _check_scope

\* v in l, for a Python list l
InList(v, l) == \E i \in 1..Len(l) : l[i] = v

\* The elements of a Python list, as a set
Elements(l) == {l[i] : i \in 1..Len(l)}

\* "{}/{}".format(user_name, server_name)
format(user_name, server_name) == user_name \o <<"/">> \o server_name

\* A plausible slip: with a `user` list in the scope, groups are never expanded.
needs_scope_expansion_user_list_wins(filter_, filter_value, sub_scope) ==
    IF ~(filter_ = user /\ group \in DOMAIN sub_scope)
    THEN FALSE
    ELSE user \notin DOMAIN sub_scope

_needs_scope_expansion(filter_, filter_value, sub_scope) ==
    IF ~(filter_ = user /\ group \in DOMAIN sub_scope)
    THEN FALSE
    ELSE IF user \in DOMAIN sub_scope
         THEN ~InList(filter_value, sub_scope[user])
         ELSE TRUE

\* _check_user_in_expanded_scope: raised is the HTTPError(404) for an unknown
\* user, value the bool returned otherwise.
_check_user_in_expanded_scope(store, user_name, scope_group_names) ==
    LET found == store[user_name]
    IN  IF ~found.exists
        THEN [raised |-> TRUE, value |-> FALSE]
        ELSE [raised |-> FALSE,
              value  |-> (Elements(scope_group_names) \cap found.groups) # {}]

RECURSIVE CheckFilters(_, _, _, _, _, _)
\* `for (filter_, filter_value) in kwargs.items()` from the i-th item on, then
\* the final raise; n counts the find_user calls made so far.
CheckFilters(sub_scope, store, kwargs, items, i, n) ==
    IF i > Len(items)
    THEN [result |-> "HTTPError404", lookups |-> n]
    ELSE LET filter_      == items[i]
             filter_value == kwargs[filter_]
         IN  IF filter_ \in DOMAIN sub_scope /\ InList(filter_value, sub_scope[filter_])
             THEN [result |-> "True", lookups |-> n]
             ELSE IF _needs_scope_expansion(filter_, filter_value, sub_scope)
             THEN LET r == _check_user_in_expanded_scope(store, filter_value, sub_scope[group])
                  IN  IF r.raised THEN [result |-> "HTTPError404", lookups |-> n + 1]
                      ELSE IF r.value THEN [result |-> "True", lookups |-> n + 1]
                      ELSE CheckFilters(sub_scope, store, kwargs, items, i + 1, n + 1)
             ELSE CheckFilters(sub_scope, store, kwargs, items, i + 1, n)

\* The rewrite of kwargs['server'] when both user and server are given.
Composite(kwargs) ==
    IF user \in DOMAIN kwargs /\ server \in DOMAIN kwargs
    THEN [kwargs EXCEPT ![server] = format(kwargs[user], kwargs[server])]
    ELSE kwargs

\* A plausible slip: the server name is matched as given, not as user/server.
check_scope_bare_server(parsed, store, req_scope, kwargs, items) ==
    IF req_scope \notin DOMAIN parsed
    THEN [result |-> "False", lookups |-> 0]
    ELSE IF parsed[req_scope].ALL
    THEN [result |-> "True", lookups |-> 0]
    ELSE IF DOMAIN kwargs = {}
    THEN [result |-> "True", lookups |-> 0]
    ELSE CheckFilters(parsed[req_scope].filters, store, kwargs, items, 1, 0)

\* A plausible slip: no early return for a call without resource arguments.
check_scope_no_empty_case(parsed, store, req_scope, kwargs, items) ==
    IF req_scope \notin DOMAIN parsed
    THEN [result |-> "False", lookups |-> 0]
    ELSE IF parsed[req_scope].ALL
    THEN [result |-> "True", lookups |-> 0]
    ELSE CheckFilters(parsed[req_scope].filters, store, Composite(kwargs), items, 1, 0)

\* _check_scope(api_handler, req_scope, **kwargs): parsed is
\* api_handler.parsed_scopes, store answers api_handler.find_user, items is the
\* order of kwargs.items(). result is "True", "False" or the HTTPError raised.
_check_scope(parsed, store, req_scope, kwargs, items) ==
    IF req_scope \notin DOMAIN parsed
    THEN [result |-> "False", lookups |-> 0]
    ELSE IF parsed[req_scope].ALL
    THEN [result |-> "True", lookups |-> 0]
    ELSE IF DOMAIN kwargs = {}
    THEN [result |-> "True", lookups |-> 0]
    ELSE CheckFilters(parsed[req_scope].filters, store, Composite(kwargs), items, 1, 0)

\* --------------------------------------------------- needs_scope._auth_func

RECURSIVE RunChecks(_, _, _, _, _, _, _)
\* `for scope in scopes: has_access |= _check_scope(...)` from the i-th scope
\* on: the results of the calls made, the last one being the one that raised,
\* if any did.
RunChecks(parsed, store, required, kwargs, items, i, done) ==
    IF i > Len(required) THEN done
    ELSE LET r == _check_scope(parsed, store, required[i], kwargs, items)
         IN  IF r.result = "HTTPError404"
             THEN Append(done, r)
             ELSE RunChecks(parsed, store, required, kwargs, items, i + 1, Append(done, r))

\* A plausible slip: an exception of a check is counted as a refusal.
AuthOutcomeSwallow(run) ==
    IF \E i \in 1..Len(run) : run[i].result = "True"
    THEN "func"
    ELSE "HTTPError403"

\* How _auth_func ends after the checks in run: the 404 of a check propagates,
\* else func is called if has_access, else HTTPError(403) is raised.
AuthOutcome(run) ==
    IF \E i \in 1..Len(run) : run[i].result = "HTTPError404"
    THEN "HTTPError404"
    ELSE IF \E i \in 1..Len(run) : run[i].result = "True"
    THEN "func"
    ELSE "HTTPError403"

RECURSIVE SumLookups(_, _)
SumLookups(run, i) ==
    IF i > Len(run) THEN 0 ELSE run[i].lookups + SumLookups(run, i + 1)

\* All lists of at most n elements of S.
ListsOf(S, n) == UNION {[1..k -> S] : k \in 0..n}

\* ------------------------------------------- parse_scopes as a state machine

a == <<"a">>

b == <<"b">>

x == <<"x">>

y == <<"y">>

\* Grant strings handed to parse_scopes: plain, filtered, and the degenerate
\* forms the parser accepts verbatim.
ParseStrings ==
    { a, b, <<>>,
      a \o <<"!">>,
      a \o <<"!", "x">>,
      FilteredGrant(a, x, <<"1">>),
      FilteredGrant(a, x, <<"2">>),
      FilteredGrant(a, y, <<"1">>),
      FilteredGrant(a, x, <<"1", "=", "2">>),
      FilteredGrant(a, x \o <<"!">> \o y, <<"1">>),
      FilteredGrant(b, x, <<"1">>),
      FilteredGrant(<<>>, x, <<"1">>) }

ParseOff ==
    /\ scope_list = <<>>
    /\ ps_i = 1
    /\ ps_parsed_scopes = EmptyDict
    /\ ps_pc = "off"

ResolveOff ==
    /\ orm_object = [type |-> "None", owner |-> "None"]
    /\ roles_scopes = [o \in {"APIToken", "User", "Service"} |-> {}]
    /\ gs_scopes = {}
    /\ gs_discarded = {}
    /\ gs_pc = "off"

HandlerOff ==
    /\ has_raw_scopes = FALSE
    /\ raw_scopes = <<>>
    /\ parsed_scopes = EmptyDict
    /\ caller_scopes = <<>>
    /\ find_user = EmptyDict

CallOff ==
    /\ pc = "off"
    /\ scopes = <<>>
    /\ s_kwargs = EmptyDict
    /\ order = <<>>
    /\ checks = <<>>
    /\ outcome = "none"
    /\ lookups = 0

InitParse ==
    /\ scope_list \in ListsOf(ParseStrings, MaxScopeList)
    /\ ps_i = 1
    /\ ps_parsed_scopes = EmptyDict
    /\ ps_pc = "loop"
    /\ ResolveOff /\ HandlerOff /\ CallOff

\* One pass of `for scope in scope_list`.
ParseLoop ==
    /\ ps_pc = "loop"
    /\ ps_i <= Len(scope_list)
    /\ ps_parsed_scopes' = ParseStep(ps_parsed_scopes, scope_list[ps_i])
    /\ ps_i' = ps_i + 1
    /\ UNCHANGED <<scope_list, ps_pc, varsResolve, varsHandler, varsCall>>

\* `return parsed_scopes`
ParseReturn ==
    /\ ps_pc = "loop"
    /\ ps_i > Len(scope_list)
    /\ ps_pc' = "return"
    /\ UNCHANGED <<scope_list, ps_i, ps_parsed_scopes, varsResolve, varsHandler, varsCall>>

NextParse == ParseLoop \/ ParseReturn

SpecParse == InitParse /\ [][NextParse]_vars

\* ------------------------------------------------- the grammar, read directly

\* Positions of character c in s.
Places(s, c) == {i \in 1..Len(s) : s[i] = c}

\* The first position of c in s, or one past the end of s.
FirstPlace(s, c) ==
    IF Places(s, c) = {} THEN Len(s) + 1
    ELSE CHOOSE i \in Places(s, c) : \A j \in Places(s, c) : i <= j

HasBang(s) == Places(s, "!") # {}

NameOf(s) == SubSeq(s, 1, FirstPlace(s, "!") - 1)

SuffixOf(s) == SubSeq(s, FirstPlace(s, "!") + 1, Len(s))

KeyOf(s) == SubSeq(SuffixOf(s), 1, FirstPlace(SuffixOf(s), "=") - 1)

ValueOf(s) == SubSeq(SuffixOf(s), FirstPlace(SuffixOf(s), "=") + 1, Len(SuffixOf(s)))

\* The values of the strings of list for ScopeName n and FilterKey k, in order.
ValuesOf(list, n, k) ==
    LET sel == SelectSeq(list, LAMBDA s : NameOf(s) = n /\ KeyOf(s) = k)
    IN  [i \in 1..Len(sel) |-> ValueOf(sel[i])]

\* C3: Unrestricted always wins in parse_scopes, whatever the order: at every
\* point of the loop, each ScopeName for which a string without filter suffix
\* has been processed is Scope.ALL (so no later filtered grant changes it
\* back), and parse(["a!x=1","a"]) = parse(["a","a!x=1"]) = {a: ALL}.
C3_UnrestrictedWins ==
    /\ \A j \in 1..(ps_i - 1) :
          SuffixOf(scope_list[j]) = <<>> =>
            /\ NameOf(scope_list[j]) \in DOMAIN ps_parsed_scopes
            /\ ps_parsed_scopes[NameOf(scope_list[j])].ALL
    /\ ( /\ ps_pc = "return"
         /\ scope_list \in { <<FilteredGrant(a, x, <<"1">>), a>>,
                              <<a, FilteredGrant(a, x, <<"1">>)>> } )
        => ps_parsed_scopes = [n \in {a} |-> Scope_ALL]

\* parse_scopes returned for a list where an unfiltered grant for a ScopeName
\* comes before and after filtered grants for it.
C3_Witness ==
    /\ ps_pc = "return"
    /\ Len(scope_list) = 3
    /\ scope_list[2] = a
    /\ scope_list[1] = FilteredGrant(a, x, <<"1">>)
    /\ scope_list[3] = FilteredGrant(a, y, <<"1">>)
    /\ ps_parsed_scopes[a].ALL

\* C4 as stated: a ScopeName is Unrestricted in the result if and only if
\* some grant string for it contains no `!`, and otherwise its Filtered grant
\* lists, per FilterKey, the Values of its strings in input order.
C4_AsStated ==
    ps_pc = "return" =>
      \A n \in DOMAIN ps_parsed_scopes :
        /\ ps_parsed_scopes[n].ALL <=>
              \E j \in 1..Len(scope_list) :
                NameOf(scope_list[j]) = n /\ ~HasBang(scope_list[j])
        /\ ~ps_parsed_scopes[n].ALL =>
              \A j \in 1..Len(scope_list) :
                (NameOf(scope_list[j]) = n /\ HasBang(scope_list[j])) =>
                  /\ KeyOf(scope_list[j]) \in DOMAIN ps_parsed_scopes[n].filters
                  /\ ps_parsed_scopes[n].filters[KeyOf(scope_list[j])]
                       = ValuesOf(scope_list, n, KeyOf(scope_list[j]))

\* C4, amended: the result has one entry per ScopeName of the list; the entry
\* is Scope.ALL if and only if some string for the name has an empty filter
\* suffix (no `!`, or nothing after the first `!`); otherwise it holds, per
\* FilterKey, the Values of the name's strings in input order, duplicates kept.
C4_ParseShape ==
    ps_pc = "return" =>
      /\ DOMAIN ps_parsed_scopes = {NameOf(scope_list[j]) : j \in 1..Len(scope_list)}
      /\ \A n \in DOMAIN ps_parsed_scopes :
            /\ ps_parsed_scopes[n].ALL <=>
                  \E j \in 1..Len(scope_list) :
                    NameOf(scope_list[j]) = n /\ SuffixOf(scope_list[j]) = <<>>
            /\ ~ps_parsed_scopes[n].ALL =>
                  /\ DOMAIN ps_parsed_scopes[n].filters =
                       {KeyOf(scope_list[j]) :
                          j \in {i \in 1..Len(scope_list) : NameOf(scope_list[i]) = n}}
                  /\ \A k \in DOMAIN ps_parsed_scopes[n].filters :
                       ps_parsed_scopes[n].filters[k] = ValuesOf(scope_list, n, k)
      /\ scope_list = <<FilteredGrant(a, x, <<"1">>), FilteredGrant(a, x, <<"2">>)>>
           => ps_parsed_scopes = [n \in {a} |-> Filtered([k \in {x} |-> << <<"1">>, <<"2">> >>])]

\* parse_scopes returned a Filtered grant with two values under one key.
C4_Witness ==
    /\ ps_pc = "return"
    /\ a \in DOMAIN ps_parsed_scopes
    /\ ~ps_parsed_scopes[a].ALL
    /\ x \in DOMAIN ps_parsed_scopes[a].filters
    /\ ps_parsed_scopes[a].filters[x] = << <<"1">>, <<"1">> >>

\* ----------------------------------------- get_scopes_for as a state machine

\* Grant strings roles.get_scopes_for may answer.
RoleScopes == {all, users, users_servers, FilteredGrant(users, user, u1)}

OrmObjects ==
    { [type |-> "None", owner |-> "None"],
      [type |-> "User", owner |-> "None"],
      [type |-> "Service", owner |-> "None"],
      [type |-> "APIToken", owner |-> "User"],
      [type |-> "APIToken", owner |-> "Service"] }

InitResolve ==
    /\ orm_object \in OrmObjects
    /\ roles_scopes \in [{"APIToken", "User", "Service"} -> SUBSET RoleScopes]
    /\ gs_scopes = {}
    /\ gs_discarded = {}
    /\ gs_pc = "call"
    /\ ParseOff /\ HandlerOff /\ CallOff

\* get_scopes_for(None)
ResolveNone ==
    /\ gs_pc = "call"
    /\ orm_object.type = "None"
    /\ gs_scopes' = get_scopes_for(orm_object, roles_scopes).scopes
    /\ gs_discarded' = get_scopes_for(orm_object, roles_scopes).discarded
    /\ gs_pc' = "return"
    /\ UNCHANGED <<orm_object, roles_scopes, varsParse, varsHandler, varsCall>>

\* get_scopes_for(token)
ResolveToken ==
    /\ gs_pc = "call"
    /\ orm_object.type = "APIToken"
    /\ gs_scopes' = get_scopes_for(orm_object, roles_scopes).scopes
    /\ gs_discarded' = get_scopes_for(orm_object, roles_scopes).discarded
    /\ gs_pc' = "return"
    /\ UNCHANGED <<orm_object, roles_scopes, varsParse, varsHandler, varsCall>>

\* get_scopes_for(user or service)
ResolveOther ==
    /\ gs_pc = "call"
    /\ orm_object.type \in {"User", "Service"}
    /\ gs_scopes' = get_scopes_for(orm_object, roles_scopes).scopes
    /\ gs_discarded' = get_scopes_for(orm_object, roles_scopes).discarded
    /\ gs_pc' = "return"
    /\ UNCHANGED <<orm_object, roles_scopes, varsParse, varsHandler, varsCall>>

NextResolve == ResolveNone \/ ResolveToken \/ ResolveOther

SpecResolve == InitResolve /\ [][NextResolve]_vars

\* C2: the scopes get_scopes_for returns for a token are a subset of what the
\* accessor answers for its owner, also when the token holds `all`; when it
\* does not hold `all` and shares no scope with its owner, the result is empty.
C2_TokenWithinOwner ==
    (gs_pc = "return" /\ orm_object.type = "APIToken") =>
      /\ gs_scopes \subseteq roles_scopes[orm_object.owner]
      /\ ( /\ all \notin roles_scopes["APIToken"]
           /\ roles_scopes["APIToken"] \cap roles_scopes[orm_object.owner] = {} )
         => gs_scopes = {}

\* A token holding `all` and a scope its owner lacks was resolved to a
\* non-empty set, the scope the owner lacks being discarded.
C2_Witness ==
    /\ gs_pc = "return"
    /\ orm_object.type = "APIToken"
    /\ all \in roles_scopes["APIToken"]
    /\ all \notin roles_scopes[orm_object.owner]
    /\ users \in roles_scopes["APIToken"] \ roles_scopes[orm_object.owner]
    /\ users_servers \in gs_scopes
    /\ users \in gs_discarded

\* ------------------------------------------------ the handler and its calls

UserNames == {u1, u2}

\* What find_user answers: None, or a user with its groups.
UserRecords ==
    { [exists |-> FALSE, groups |-> {}],
      [exists |-> TRUE, groups |-> {}],
      [exists |-> TRUE, groups |-> {g1}],
      [exists |-> TRUE, groups |-> {g2}] }

\* Grant strings a caller may hold.
HeldStrings ==
    { users,
      FilteredGrant(users, user, u1),
      users_servers,
      FilteredGrant(users_servers, user, u1),
      FilteredGrant(users_servers, group, g1),
      FilteredGrant(users_servers, server, bar),
      FilteredGrant(users_servers, server, format(u1, bar)) }

\* The scopes a decorator requires: needs_scope(*scopes).
RequiredScopes ==
    { <<users_servers>>, <<users>>, <<users_servers, users>>, <<users, users_servers>> }

\* The resources _auth_func looks for among the call's arguments.
Resources == {user, server, group, service}

resource_name(resource) == resource \o <<"_", "n", "a", "m", "e">>

\* bound_sig.arguments, restricted to the resource arguments: the decorated
\* methods take some of user_name, server_name, group_name.
Arguments ==
    UNION { [N -> {u1, u2, bar, g1}] : N \in SUBSET {resource_name(user),
                                                     resource_name(server),
                                                     resource_name(group)} }

ArgumentsOK(arguments) ==
    /\ resource_name(user) \in DOMAIN arguments
         => arguments[resource_name(user)] \in UserNames
    /\ resource_name(server) \in DOMAIN arguments
         => arguments[resource_name(server)] = bar
    /\ resource_name(group) \in DOMAIN arguments
         => arguments[resource_name(group)] = g1

\* The orders in which a Python set S can be iterated.
Orders(S) ==
    {o \in [1..Cardinality(S) -> S] : \A i, j \in 1..Cardinality(S) : o[i] = o[j] => i = j}

Init ==
    /\ caller_scopes \in ListsOf(HeldStrings, MaxHeld)
    /\ has_raw_scopes \in BOOLEAN
    /\ raw_scopes = IF has_raw_scopes THEN caller_scopes ELSE <<>>
    /\ parsed_scopes = IF has_raw_scopes THEN parse_scopes(caller_scopes) ELSE EmptyDict
    /\ find_user \in [UserNames -> UserRecords]
    /\ pc = "idle"
    /\ scopes = <<>>
    /\ s_kwargs = EmptyDict
    /\ order = <<>>
    /\ checks = <<>>
    /\ outcome = "none"
    /\ lookups = 0
    /\ ParseOff /\ ResolveOff

\* A call of a method decorated with needs_scope(*required): _auth_func, from
\* binding the arguments to the call of func or the HTTPError.
Call(required, arguments, items) ==
    /\ pc = "idle"
    /\ LET loaded == IF has_raw_scopes THEN parsed_scopes ELSE EmptyDict
           kwargs == [r \in {q \in Resources : resource_name(q) \in DOMAIN arguments}
                        |-> arguments[resource_name(r)]]
           run    == RunChecks(loaded, find_user, required, kwargs, items, 1, <<>>)
       IN  /\ items \in Orders(DOMAIN kwargs)
           /\ has_raw_scopes' = TRUE
           /\ raw_scopes' = IF has_raw_scopes THEN raw_scopes ELSE <<>>
           /\ parsed_scopes' = loaded
           /\ scopes' = required
           /\ s_kwargs' = kwargs
           /\ order' = items
           /\ checks' = run
           /\ outcome' = AuthOutcome(run)
           /\ lookups' = SumLookups(run, 1)
    /\ pc' = "done"
    /\ UNCHANGED <<caller_scopes, find_user, varsParse, varsResolve>>

\* func returned or the HTTPError reached the caller: the handler is ready for
\* the next decorated call of the request.
Return ==
    /\ pc = "done"
    /\ pc' = "idle"
    /\ scopes' = <<>>
    /\ s_kwargs' = EmptyDict
    /\ order' = <<>>
    /\ checks' = <<>>
    /\ outcome' = "none"
    /\ lookups' = 0
    /\ UNCHANGED <<varsHandler, varsParse, varsResolve>>

AuthFunc ==
    \E required \in RequiredScopes :
      \E arguments \in {f \in Arguments : ArgumentsOK(f)} :
        \E items \in Orders({q \in Resources : resource_name(q) \in DOMAIN arguments}) :
          Call(required, arguments, items)

Next == AuthFunc \/ Return

Spec == Init /\ [][Next]_vars

\* The i-th required scope of the last call is held with filters.
HeldFiltered(i) ==
    /\ scopes[i] \in DOMAIN parsed_scopes
    /\ ~parsed_scopes[scopes[i]].ALL

\* C1 as stated: a call of a method requiring two scopes, one of which the
\* caller holds unrestricted, reaches the protected method, whatever the state
\* of the other scope and whatever the request's resources.
C1_AsStated ==
    ( /\ pc = "done"
      /\ Len(scopes) = 2
      /\ \E i \in 1..2 : scopes[i] \in DOMAIN parsed_scopes /\ parsed_scopes[scopes[i]].ALL )
    => outcome = "func"

\* C5: group expansion for a filtered scope and the context {user: u}. With a
\* `group` list G and u not in the `user` list (or no such list), the check
\* allows when find_user knows u and u is in a group of G, and raises 404
\* otherwise; without a `group` entry find_user is not called and the check
\* allows exactly when u is in the `user` list, and raises 404 otherwise.
C5_GroupExpansion ==
    (pc = "done" /\ DOMAIN s_kwargs = {user}) =>
      \A i \in 1..Len(checks) :
        HeldFiltered(i) =>
          LET f      == parsed_scopes[scopes[i]].filters
              u      == s_kwargs[user]
              listed == user \in DOMAIN f /\ InList(u, f[user])
          IN  /\ (group \in DOMAIN f /\ ~listed) =>
                   checks[i].result =
                     IF find_user[u].exists /\ \E g \in find_user[u].groups : InList(g, f[group])
                     THEN "True" ELSE "HTTPError404"
              /\ group \notin DOMAIN f =>
                   /\ checks[i].lookups = 0
                   /\ checks[i].result = IF listed THEN "True" ELSE "HTTPError404"

\* A user outside the scope's `user` list was allowed through a group.
C5_Witness ==
    /\ pc = "done"
    /\ DOMAIN s_kwargs = {user}
    /\ HeldFiltered(1)
    /\ {user, group} \subseteq DOMAIN parsed_scopes[scopes[1]].filters
    /\ ~InList(s_kwargs[user], parsed_scopes[scopes[1]].filters[user])
    /\ checks[1].result = "True"
    /\ checks[1].lookups = 1
    /\ outcome = "func"

\* C6 as stated: once the handler carries cached scopes, they are the caller's
\* grant strings and their parse.
C6_AsStated ==
    has_raw_scopes =>
      /\ raw_scopes = caller_scopes
      /\ parsed_scopes = parse_scopes(caller_scopes)

\* The call of C7: a method requiring users:servers, called with
\* user_name = "u1" and server_name = "bar", by a caller whose only grant is
\* users:servers!server=<value>.
ServerCall(value) ==
    /\ pc = "done"
    /\ raw_scopes = <<FilteredGrant(users_servers, server, value)>>
    /\ scopes = <<users_servers>>
    /\ s_kwargs = [r \in {user, server} |-> IF r = user THEN u1 ELSE bar]

\* C7 as stated: with the only grant users:servers!server=bar the call is
\* allowed.
C7_AsStated == ServerCall(bar) => outcome = "func"

\* C7, amended: the call is allowed with the only grant
\* users:servers!server=u1/bar, the composite the server name is rewritten to
\* before matching; with users:servers!server=bar it ends in HTTPError(404).
C7_CompositeFilter ==
    /\ ServerCall(format(u1, bar)) => outcome = "func"
    /\ ServerCall(bar) => outcome = "HTTPError404"

\* The call with the composite grant reached the protected method.
C7_Witness == ServerCall(format(u1, bar)) /\ outcome = "func"

\* C8: a call in which no check returned True never reaches the protected
\* method and ends in an error: HTTPError(404) if a check raised it, and
\* HTTPError(403) only when every required scope was checked and refused
\* plainly, each being absent from parsed_scopes.
C8_Rejection ==
    ( /\ pc = "done"
      /\ \A i \in 1..Len(checks) : checks[i].result # "True" )
    => /\ outcome \in {"HTTPError404", "HTTPError403"}
       /\ (\E i \in 1..Len(checks) : checks[i].result = "HTTPError404")
            => outcome = "HTTPError404"
       /\ outcome = "HTTPError403" =>
            /\ Len(checks) = Len(scopes)
            /\ \A i \in 1..Len(scopes) :
                 /\ checks[i].result = "False"
                 /\ scopes[i] \notin DOMAIN parsed_scopes

\* A first scope refused plainly and a second one not found: the call ended
\* in HTTPError(404).
C8_Witness ==
    /\ pc = "done"
    /\ Len(checks) = 2
    /\ checks[1].result = "False"
    /\ checks[2].result = "HTTPError404"
    /\ outcome = "HTTPError404"

\* C9: with no resource argument, the check of every required scope the
\* caller holds, unrestricted or filtered, returns True; nothing raises and
\* find_user is not called.
C9_EmptyContext ==
    (pc = "done" /\ DOMAIN s_kwargs = {}) =>
      /\ Len(checks) = Len(scopes)
      /\ lookups = 0
      /\ \A i \in 1..Len(scopes) :
           scopes[i] \in DOMAIN parsed_scopes =>
             checks[i] = [result |-> "True", lookups |-> 0]

\* A scope held with a `group` filter was checked without resource argument.
C9_Witness ==
    /\ pc = "done"
    /\ DOMAIN s_kwargs = {}
    /\ HeldFiltered(1)
    /\ group \in DOMAIN parsed_scopes[scopes[1]].filters
    /\ checks[1].result = "True"
    /\ outcome = "func"

\* C10 as stated: the result of each check made is the one _check_scope gives
\* for every other order of the same context entries.
C10_AsStated ==
    pc = "done" =>
      \A i \in 1..Len(checks) :
        \A items \in Orders(DOMAIN s_kwargs) :
          _check_scope(parsed_scopes, find_user, scopes[i], s_kwargs, items).result
            = checks[i].result

====
